---- MODULE Spec2Model ----
(***************************************************************************)
(* Model of back/app.py: the dashboard's script main(), one render pass    *)
(* after another over the scraper's JSON document, and the helper          *)
(* calculate_profit_margin.                                                *)
(*                                                                         *)
(* JSON values are tagged records: a key that is missing from a dict is    *)
(* Absent, a JSON null is Null, a number n is Num(n), an object o is       *)
(* Obj(o).  Python's dict.get, `or` and truthiness are operators on them.  *)
(* Float values that the code obtains by division are exact fractions.     *)
(***************************************************************************)
EXTENDS Integers, Sequences, FiniteSets

(* ------------------------------ bounds --------------------------------- *)
\* longest top-level arbitrage_opportunities list
MaxOpps == 2
\* most listings (swappa_products and newegg_products together) in one run
MaxListings == 2
\* longest run_history
MaxRuns == 2
\* prices given to calculate_profit_margin range over -MaxPrice..MaxPrice
MaxPrice == 4

(* --------------------------- JSON values ------------------------------- *)
Absent == [t |-> "absent", v |-> 0]
Null == [t |-> "null", v |-> 0]
Num(n) == [t |-> "num", v |-> n]
Obj(o) == [t |-> "obj", v |-> o]

IsNum(x) == x.t = "num"
\* x is None in Python: a JSON null, or the result of .get on a missing key
IsNone(x) == x.t \in {"absent", "null"}

\* d.get(key, default) where x is the entry of key in d
Get(x, default) == IF x.t = "absent" THEN default ELSE x
\* d.get(key): the default is None
GetNone(x) == Get(x, Null)
\* bool(x)
Truthy(x) ==
    CASE x.t = "num" -> x.v # 0
      [] x.t = "obj" -> TRUE
      [] OTHER -> FALSE
\* x or d
Or(x, d) == IF Truthy(x) THEN x ELSE d

(* ---------------------------- fractions -------------------------------- *)
Abs(n) == IF n < 0 THEN -n ELSE n

RECURSIVE GCD(_, _)
GCD(a, b) == IF b = 0 THEN a ELSE GCD(b, a % b)

\* the number n / d, d # 0, in lowest terms with a positive denominator
Frac(n, d) ==
    LET g == GCD(Abs(n), Abs(d))
        s == IF d < 0 THEN -1 ELSE 1
    IN  [num |-> (s * n) \div g, den |-> Abs(d) \div g]

RECURSIVE SumSeq(_)
SumSeq(s) == IF s = <<>> THEN 0 ELSE Head(s) + SumSeq(Tail(s))

(* ------------------------- sequences helpers --------------------------- *)
SeqUpTo(S, n) == UNION {[1..k -> S] : k \in 0..n}

\* sorted(s, key, reverse=True) where keys[i] is the key of s[i]: Python's sort
\* is stable, and with reverse=True elements with equal keys keep their order
SortedReverse(s, keys) ==
    LET n == Len(s)
        pos(i) == 1 + Cardinality({j \in 1..n :
                      \/ keys[j] > keys[i]
                      \/ keys[j] = keys[i] /\ j < i})
    IN  [p \in 1..n |-> s[CHOOSE i \in 1..n : pos(i) = p]]

(* --------------------------- the data model ---------------------------- *)
\* an Opportunity: the keys main() reads from an arbitrage_opportunities entry
Opportunity(name, margin, profit) ==
    [buy_product_name |-> name, margin_percent |-> margin, potential_profit |-> profit]

\* a Listing: the keys main() reads from a swappa_products / newegg_products entry
Listing(margin, profit, url) ==
    [margin_percent |-> margin, potential_profit |-> profit, url |-> url]

SwappaUrl == "https://swappa.com/listing/1"
NeweggUrl == "https://www.newegg.com/p/1"
Urls == {SwappaUrl, NeweggUrl}

\* 'swappa' in url.lower() and 'newegg' in url.lower(), on the urls of the model
ContainsSwappa(url) == url = SwappaUrl
ContainsNewegg(url) == url = NeweggUrl

\* a RunSnapshot: one element of run_history
RunSnapshot(swappa, newegg, opps, ts, te, best) ==
    [swappa_products |-> swappa, newegg_products |-> newegg,
     arbitrage_opportunities |-> opps, total_swappa |-> ts,
     total_ebay_sold |-> te, best_opportunity |-> best]

\* the decoded JSON document; a top-level swappa_products entry is read only
\* for the columns of its DataFrame, so it is kept as its set of keys
Document(opps, history, swappa) ==
    [arbitrage_opportunities |-> opps, run_history |-> history,
     swappa_products |-> swappa]

(* ----------------------- the inputs of the model ----------------------- *)
MarginVals == {Absent, Null, Num(-5), Num(0), Num(5)}
Names == {"a", "b"}

\* documents whose top-level opportunity list varies
TopOpps == {Opportunity(n, m, Num(10)) : n \in Names, m \in MarginVals}
DocsOpps == {Document(o, <<>>, <<>>) : o \in SeqUpTo(TopOpps, MaxOpps)}

\* documents with one run whose listings vary
Listings ==
    {Listing(m, Num(10), u) : m \in MarginVals, u \in Urls}
    \cup {Listing(m, p, SwappaUrl) : m \in {Null, Num(5)}, p \in {Absent, Null}}
ListingPairs ==
    {sn \in SeqUpTo(Listings, MaxListings) \X SeqUpTo(Listings, MaxListings) :
        Len(sn[1]) + Len(sn[2]) <= MaxListings}
DocsListings ==
    {Document(<<>>, <<RunSnapshot(sn[1], sn[2], <<>>, Absent, Absent, Absent)>>, <<>>) :
        sn \in ListingPairs}

\* histories whose runs differ in their opportunities
RunOpps == {Opportunity("a", Num(0), Num(10)), Opportunity("a", Num(5), Num(10)),
            Opportunity("b", Num(-5), Num(10))}
RunsOpps == {RunSnapshot(<<>>, <<>>, o, Absent, Absent, Absent) : o \in SeqUpTo(RunOpps, 2)}

\* histories whose runs differ in their cached counters
RunsCounters ==
    {RunSnapshot(<<>>, <<>>, <<>>, ts, te, Absent) :
        ts \in {Absent, Num(1), Num(3)}, te \in {Absent, Num(2)}}

\* histories whose runs differ in their listings
RunsListings ==
    {RunSnapshot(s, n, <<>>, Absent, Absent, Absent) :
        s \in {<<>>, <<Listing(Null, Num(10), SwappaUrl)>>,
               <<Listing(Num(5), Num(10), SwappaUrl), Listing(Num(0), Num(10), SwappaUrl)>>},
        n \in {<<>>, <<Listing(Num(-5), Num(10), NeweggUrl)>>}}

\* histories whose runs differ in their best_opportunity
BestVals ==
    {Absent, Null}
    \cup {Obj(Opportunity("a", m, p)) : m \in {Absent, Null, Num(5)}, p \in {Absent, Null, Num(10)}}
RunsBest == {RunSnapshot(<<>>, <<>>, <<>>, Absent, Absent, b) : b \in BestVals}

DocsHistory ==
    {Document(<<>>, h, <<>>) :
        h \in SeqUpTo(RunsOpps, MaxRuns) \cup SeqUpTo(RunsCounters, MaxRuns)
              \cup SeqUpTo(RunsListings, MaxRuns) \cup SeqUpTo(RunsBest, MaxRuns)}

\* documents whose top-level swappa_products vary in the keys of their
\* entries: the keys the fallback table selects, the keys of a Listing with
\* price_numeric in place of price, an entry without url, an entry without keys
TableColumns == {"name", "price", "url"}
ListingKeys ==
    {TableColumns, {"name", "price_numeric", "url", "source"}, {"name", "price"}, {}}
DocsSwappa ==
    {Document(<<>>, h, s) :
        h \in {<<>>,
               <<RunSnapshot(<<>>, <<>>, <<>>, Absent, Absent, Absent)>>,
               <<RunSnapshot(<<Listing(Num(5), Num(10), SwappaUrl)>>, <<>>, <<>>,
                             Absent, Absent, Absent)>>},
        s \in SeqUpTo(ListingKeys, MaxListings)}

Documents == DocsOpps \cup DocsListings \cup DocsHistory \cup DocsSwappa

\* scraper_data.json on disk
FileMissing == [kind |-> "missing", doc |-> Document(<<>>, <<>>, <<>>)]
FileInvalid == [kind |-> "invalid", doc |-> Document(<<>>, <<>>, <<>>)]
\* an empty JSON value other than null: {}, [], 0, "", false
FileEmpty == [kind |-> "empty", doc |-> Document(<<>>, <<>>, <<>>)]
\* the JSON text null
FileNull == [kind |-> "null", doc |-> Document(<<>>, <<>>, <<>>)]
\* a path that exists and cannot be opened or decoded as text: a directory,
\* a file without read permission, bytes that are no UTF-8 (a UTF-16 document)
FileUnreadable == [kind |-> "unreadable", doc |-> Document(<<>>, <<>>, <<>>)]
FileValid(d) == [kind |-> "valid", doc |-> d]
\* a JSON value that is neither empty nor an object: [1], 5, "x", true
FileNonObject == [kind |-> "nonobject", doc |-> Document(<<>>, <<>>, <<>>)]
Files ==
    {FileMissing, FileInvalid, FileEmpty, FileNull, FileUnreadable, FileNonObject}
    \cup {FileValid(d) : d \in Documents}

(* ------------------------------ load_data ------------------------------ *)
\* os.path.exists(data_file)
Exists(f) == f.kind # "missing"

\* None
NoData == [t |-> "none", v |-> Document(<<>>, <<>>, <<>>)]
\* an exception that leaves load_data: only json.JSONDecodeError is caught
Raised == [t |-> "raise", v |-> Document(<<>>, <<>>, <<>>)]

\* the outcome of load_data when os.path.exists answered `exists` and the
\* path then holds f at open(): None without a file or when json.load raises
\* JSONDecodeError; FileNotFoundError when the file is gone at open();
\* IsADirectoryError, PermissionError or UnicodeDecodeError for an unreadable
\* path; else the decoded value: null is None, another empty JSON value has
\* none of the keys, a non-empty value that is no object is no dict
load_data(exists, f) ==
    IF ~exists THEN NoData
    ELSE CASE f.kind = "missing" -> Raised
           [] f.kind = "unreadable" -> Raised
           [] f.kind = "invalid" -> NoData
           [] f.kind = "null" -> NoData
           [] f.kind = "empty" -> [t |-> "empty", v |-> f.doc]
           [] f.kind = "nonobject" -> [t |-> "other", v |-> f.doc]
           [] OTHER -> [t |-> "dict", v |-> f.doc]

\* bool(data)
DataTruthy(d) == d.t \in {"dict", "other"}

(* ----------------------- calculate_profit_margin ----------------------- *)
\* a price argument: None or a number
Prices == {Null} \cup {Num(n) : n \in -MaxPrice..MaxPrice}

calculate_profit_margin(buy_price, sell_price) ==
    IF Truthy(buy_price) /\ Truthy(sell_price) /\ buy_price.v > 0
    THEN Obj(Frac((sell_price.v - buy_price.v) * 100, buy_price.v))
    ELSE Null

(* ------------------- Tab 1: arbitrage opportunities -------------------- *)
\* key=lambda x: x.get('margin_percent', 0) or 0
Tab1Key(x) == Or(Get(x.margin_percent, Num(0)), Num(0)).v

SortOpportunities(opportunities) ==
    SortedReverse(opportunities,
                  [i \in 1..Len(opportunities) |-> Tab1Key(opportunities[i])])

(* --------------------- Tab 2: all products vs eBay --------------------- *)
SliderMin == -100
SliderMax == 100
MinMarginChoices == {SliderMin, 0, 5, SliderMax}
SourceChoices == {"All", "Swappa", "Newegg"}

\* swappa_products + newegg_products of the selected run; selected = 0 is None
ProductsWithComparison(run_history, selected) ==
    IF run_history # <<>> /\ selected # 0
    THEN run_history[selected].swappa_products \o run_history[selected].newegg_products
    ELSE <<>>

\* key=lambda x: x.get('margin_percent', -999) or -999
Tab2Key(x) == Or(Get(x.margin_percent, Num(-999)), Num(-999)).v

SortProducts(products) ==
    SortedReverse(products, [i \in 1..Len(products) |-> Tab2Key(products[i])])

\* (p.get('margin_percent') or 0) > 0
IsProfitable(p) == Or(GetNone(p.margin_percent), Num(0)).v > 0

\* (p.get('margin_percent') or -999) >= min_margin
MeetsMinMargin(p, mm) == Or(GetNone(p.margin_percent), Num(-999)).v >= mm

MinMarginFilter(products, mm) ==
    LET keep(p) == MeetsMinMargin(p, mm) IN SelectSeq(products, keep)

FilterProducts(products, only_profitable, mm, source) ==
    LET profitable(p) == IsProfitable(p)
        swappa(p) == ContainsSwappa(p.url)
        newegg(p) == ContainsNewegg(p.url)
        s1 == IF only_profitable THEN SelectSeq(products, profitable) ELSE products
        s2 == MinMarginFilter(s1, mm)
    IN  CASE source = "Swappa" -> SelectSeq(s2, swappa)
          [] source = "Newegg" -> SelectSeq(s2, newegg)
          [] OTHER -> s2

\* the display loop raises TypeError at `potential > 0` for a product whose
\* margin is not None and whose potential_profit is present and null
DisplayFaults(products) ==
    \E i \in 1..Len(products) :
        /\ ~IsNone(products[i].margin_percent)
        /\ Get(products[i].potential_profit, Num(0)).t = "null"

\* the columns of pd.DataFrame(swappa): every key of every entry
Columns(swappa) == UNION {swappa[i] : i \in 1..Len(swappa)}

\* without products to compare Tab 2 falls back to data's swappa_products:
\* if the list and its DataFrame are not empty and 'url' is a column, it
\* selects df[['name', 'price', 'url']], a KeyError when one is no column
FallbackFaults(swappa) ==
    /\ swappa # <<>>
    /\ Columns(swappa) # {}
    /\ "url" \in Columns(swappa)
    /\ ~(TableColumns \subseteq Columns(swappa))

(* ------------------------- Tab 3: run history -------------------------- *)
\* the f-string of the best opportunity raises TypeError when margin_percent
\* or potential_profit is present and null: None has no format ".1f"
BestFaults(run) ==
    LET best == GetNone(run.best_opportunity) IN
    /\ Truthy(best)
    /\ \/ Get(best.v.margin_percent, Num(0)).t = "null"
       \/ Get(best.v.potential_profit, Num(0)).t = "null"

HistoryFaults(run_history) == \E i \in 1..Len(run_history) : BestFaults(run_history[i])

(* ------------------------- Tab 4: compare runs ------------------------- *)
\* run.get(key, 0) of a cached counter
Counter(x) == Get(x, Num(0)).v

\* the row with the subtraction the other way round
MetricRowRun1MinusRun2(metric, v1, v2) ==
    [metric |-> metric, run1 |-> v1, run2 |-> v2, delta |-> v1 - v2]

MetricRow(metric, v1, v2) == [metric |-> metric, run1 |-> v1, run2 |-> v2, delta |-> v2 - v1]

MetricDeltas(run1, run2) ==
    {MetricRow("total_swappa", Counter(run1.total_swappa), Counter(run2.total_swappa)),
     MetricRow("total_ebay_sold", Counter(run1.total_ebay_sold), Counter(run2.total_ebay_sold)),
     MetricRow("opportunities", Len(run1.arbitrage_opportunities),
               Len(run2.arbitrage_opportunities))}

\* {o.get('buy_product_name'): o for o in opps}: a later entry replaces an earlier one
OppsByName(opps) ==
    [n \in {opps[i].buy_product_name : i \in 1..Len(opps)} |->
        opps[CHOOSE i \in 1..Len(opps) :
                /\ opps[i].buy_product_name = n
                /\ \A j \in 1..Len(opps) : opps[j].buy_product_name = n => j <= i]]

\* f"{m:.1f}%" of an integer m: the text of the number in tenths
Format1f(m) == [t |-> "pct", v |-> 10 * m]
NA == [t |-> "N/A", v |-> 0]

\* f"{opp.get('margin_percent', 'N/A'):.1f}%" if opp.get('margin_percent') else "N/A"
\* where opp = by_name.get(product, {})
MarginCell(by_name, product) ==
    LET margin == IF product \in DOMAIN by_name
                  THEN GetNone(by_name[product].margin_percent)
                  ELSE Null
    IN  IF Truthy(margin) THEN Format1f(margin.v) ELSE NA

ComparisonData(run1, run2) ==
    LET run1_opps == OppsByName(run1.arbitrage_opportunities)
        run2_opps == OppsByName(run2.arbitrage_opportunities)
        all_products == DOMAIN run1_opps \cup DOMAIN run2_opps
    IN  {[Product |-> product,
          margin1 |-> MarginCell(run1_opps, product),
          margin2 |-> MarginCell(run2_opps, product)] : product \in all_products}

NoComparison(state) == [state |-> state, deltas |-> {}, rows |-> {}]

\* the comparison without the `if run1_idx != run2_idx` guard
CompareRunsUnguarded(run_history, i1, i2) ==
    [state |-> "compared",
     deltas |-> MetricDeltas(run_history[i1], run_history[i2]),
     rows |-> ComparisonData(run_history[i1], run_history[i2])]

CompareRuns(run_history, i1, i2) ==
    IF i1 # i2
    THEN [state |-> "compared",
          deltas |-> MetricDeltas(run_history[i1], run_history[i2]),
          rows |-> ComparisonData(run_history[i1], run_history[i2])]
    ELSE NoComparison("select_different")

(* --------------------------- Tab 5: analytics -------------------------- *)
\* the average of the non-None margins of the run's swappa_products, else 0
AvgMargin(run) ==
    LET products == run.swappa_products
        hasMargin(p) == ~IsNone(GetNone(p.margin_percent))
        valued == SelectSeq(products, hasMargin)
        margins == [i \in 1..Len(valued) |-> Or(Get(valued[i].margin_percent, Num(0)), Num(0)).v]
    IN  IF products # <<>> /\ margins # <<>>
        THEN Frac(SumSeq(margins), Len(margins))
        ELSE Frac(0, 1)

NoSeries ==
    [built |-> FALSE, swappa_counts |-> <<>>, ebay_counts |-> <<>>,
     avg_margins |-> <<>>, opp_counts |-> <<>>]

\* the series with avg_margins lacking the `else: avg_margins.append(0)` branch
BuildSeriesSkippingEmptyRuns(run_history) ==
    LET n == Len(run_history)
        hasProducts(run) == run.swappa_products # <<>>
        runs == SelectSeq(run_history, hasProducts)
    IN  IF n >= 2
        THEN [built |-> TRUE,
              swappa_counts |-> [i \in 1..n |-> Counter(run_history[i].total_swappa)],
              ebay_counts |-> [i \in 1..n |-> Counter(run_history[i].total_ebay_sold)],
              avg_margins |-> [i \in 1..Len(runs) |-> AvgMargin(runs[i])],
              opp_counts |-> [i \in 1..n |-> Len(run_history[i].arbitrage_opportunities)]]
        ELSE NoSeries

BuildSeries(run_history) ==
    LET n == Len(run_history) IN
    IF n >= 2
    THEN [built |-> TRUE,
          swappa_counts |-> [i \in 1..n |-> Counter(run_history[i].total_swappa)],
          ebay_counts |-> [i \in 1..n |-> Counter(run_history[i].total_ebay_sold)],
          avg_margins |-> [i \in 1..n |-> AvgMargin(run_history[i])],
          opp_counts |-> [i \in 1..n |-> Len(run_history[i].arbitrage_opportunities)]]
    ELSE NoSeries

(* ------------------------------- state --------------------------------- *)
VARIABLES
    file,                  \* scraper_data.json
    pc,                    \* where the script main() is in its pass
    data,                  \* the value load_data returned to this pass
    selected_run_idx,      \* sidebar selectbox; 0 is None
    opportunities_sorted,  \* Tab 1
    show_only_profitable,  \* Tab 2 checkbox
    min_margin,            \* Tab 2 slider
    source_filter,         \* Tab 2 selectbox
    sorted_products,       \* Tab 2
    run1_idx,              \* Tab 4 selectbox "run1"; 0 before it is drawn
    run2_idx,              \* Tab 4 selectbox "run2"; 0 before it is drawn
    comparison,            \* Tab 4: what the tab showed
    series,                \* Tab 5: the chart data
    buy_price,             \* calculate_profit_margin: arguments and result
    sell_price,
    margin

widgets == <<selected_run_idx, show_only_profitable, min_margin, source_filter,
             run1_idx, run2_idx>>
views == <<opportunities_sorted, sorted_products, comparison, series>>
calc == <<buy_price, sell_price, margin>>
vars == <<file, pc, data, widgets, views, calc>>

\* nothing drawn yet: the widgets at their defaults, no view computed
Blank ==
    /\ selected_run_idx = 0
    /\ show_only_profitable = FALSE
    /\ min_margin = SliderMin
    /\ source_filter = "All"
    /\ run1_idx = 0
    /\ run2_idx = 0
    /\ opportunities_sorted = <<>>
    /\ sorted_products = <<>>
    /\ comparison = NoComparison("not_drawn")
    /\ series = NoSeries

NoCalc == buy_price = Null /\ sell_price = Null /\ margin = Null

Init ==
    /\ file \in Files
    /\ pc = "start"
    /\ data = NoData
    /\ Blank
    /\ NoCalc

(* ------------------------------ main() --------------------------------- *)
\* load_data up to os.path.exists: without a file it returns None and
\* `if not data` shows the waiting notice; with one it goes on to open()
CheckExists ==
    /\ pc = "start"
    /\ IF Exists(file)
       THEN /\ pc' = "open"
            /\ UNCHANGED data
       ELSE /\ data' = load_data(FALSE, file)
            /\ pc' = "waiting"
    /\ UNCHANGED <<file, widgets, views, calc>>

\* load_data from open() on, of the path as it is by now, and `if not data`:
\* an exception leaves load_data and main, the pass ends where it is and no
\* rerun is asked for
LoadData ==
    /\ pc = "open"
    /\ LET loaded == load_data(TRUE, file) IN
       IF loaded = Raised
       THEN /\ pc' = "load_error"
            /\ UNCHANGED data
       ELSE /\ data' = loaded
            /\ pc' = IF DataTruthy(loaded) THEN "sidebar" ELSE "waiting"
    /\ UNCHANGED <<file, widgets, views, calc>>

\* the waiting branch: time.sleep(5); st.rerun()
WaitRerun ==
    /\ pc = "waiting"
    /\ pc' = "start"
    /\ UNCHANGED <<file, data, widgets, views, calc>>

\* data.get('run_history', []) raises AttributeError when data is no dict;
\* the sidebar's run selector: any run of the history, or None without history
Sidebar ==
    /\ pc = "sidebar"
    /\ IF data.t # "dict"
       THEN /\ pc' = "attribute_error"
            /\ UNCHANGED selected_run_idx
       ELSE /\ LET n == Len(data.v.run_history) IN
               IF n > 0
               THEN \E i \in 1..n : selected_run_idx' = i
               ELSE selected_run_idx' = 0
            /\ pc' = "tab1"
    /\ UNCHANGED <<file, data, show_only_profitable, min_margin, source_filter,
                   run1_idx, run2_idx, views, calc>>

\* the same tab with opportunities.sort(...) in place of sorted(opportunities, ...)
Tab1InPlace ==
    /\ pc = "tab1"
    /\ opportunities_sorted' = SortOpportunities(data.v.arbitrage_opportunities)
    /\ data' = [data EXCEPT !.v.arbitrage_opportunities = opportunities_sorted']
    /\ pc' = "tab2"
    /\ UNCHANGED <<file, widgets, sorted_products, comparison, series, calc>>

Tab1 ==
    /\ pc = "tab1"
    /\ LET opportunities == data.v.arbitrage_opportunities IN
       opportunities_sorted' =
           IF opportunities # <<>> THEN SortOpportunities(opportunities) ELSE <<>>
    /\ pc' = "tab2"
    /\ UNCHANGED <<file, data, widgets, sorted_products, comparison, series, calc>>

Tab2 ==
    /\ pc = "tab2"
    /\ LET products == ProductsWithComparison(data.v.run_history, selected_run_idx) IN
       IF products # <<>>
       THEN \E only \in BOOLEAN, mm \in MinMarginChoices, source \in SourceChoices :
               /\ show_only_profitable' = only
               /\ min_margin' = mm
               /\ source_filter' = source
               /\ sorted_products' = FilterProducts(SortProducts(products), only, mm, source)
               /\ pc' = IF DisplayFaults(sorted_products') THEN "fault" ELSE "tab3"
       ELSE /\ UNCHANGED <<show_only_profitable, min_margin, source_filter, sorted_products>>
            /\ pc' = IF FallbackFaults(data.v.swappa_products) THEN "fault" ELSE "tab3"
    /\ UNCHANGED <<file, data, selected_run_idx, run1_idx, run2_idx,
                   opportunities_sorted, comparison, series, calc>>

Tab3 ==
    /\ pc = "tab3"
    /\ pc' = IF HistoryFaults(data.v.run_history) THEN "fault" ELSE "tab4"
    /\ UNCHANGED <<file, data, widgets, views, calc>>

Tab4 ==
    /\ pc = "tab4"
    /\ LET run_history == data.v.run_history IN
       IF Len(run_history) >= 2
       THEN \E i1 \in 1..Len(run_history), i2 \in 1..Len(run_history) :
               /\ run1_idx' = i1
               /\ run2_idx' = i2
               /\ comparison' = CompareRuns(run_history, i1, i2)
       ELSE /\ comparison' = NoComparison("need_two_runs")
            /\ UNCHANGED <<run1_idx, run2_idx>>
    /\ pc' = "tab5"
    /\ UNCHANGED <<file, data, selected_run_idx, show_only_profitable, min_margin,
                   source_filter, opportunities_sorted, sorted_products, series, calc>>

Tab5 ==
    /\ pc = "tab5"
    /\ series' = BuildSeries(data.v.run_history)
    /\ pc' = "end"
    /\ UNCHANGED <<file, data, widgets, opportunities_sorted, sorted_products,
                   comparison, calc>>

\* st.rerun() after the auto-refresh sleep or the manual refresh button: the
\* script starts over and draws everything anew
Refresh ==
    /\ pc = "end"
    /\ pc' = "start"
    /\ selected_run_idx' = 0
    /\ show_only_profitable' = FALSE
    /\ min_margin' = SliderMin
    /\ source_filter' = "All"
    /\ run1_idx' = 0
    /\ run2_idx' = 0
    /\ opportunities_sorted' = <<>>
    /\ sorted_products' = <<>>
    /\ comparison' = NoComparison("not_drawn")
    /\ series' = NoSeries
    /\ UNCHANGED <<file, data, calc>>

Next ==
    \/ CheckExists
    \/ LoadData
    \/ WaitRerun
    \/ Sidebar
    \/ Tab1
    \/ Tab2
    \/ Tab3
    \/ Tab4
    \/ Tab5
    \/ Refresh

Spec == Init /\ [][Next]_vars

(* -------------- the script while the scraper writes the file ----------- *)
\* the files of this specification: no file, unparseable text, an empty value,
\* null, an unreadable path, a non-empty value that is no object, and two
\* documents
LiveDocuments ==
    {Document(<<>>, <<>>, <<>>),
     Document(<<Opportunity("a", Num(5), Num(10))>>,
              <<RunSnapshot(<<>>, <<>>, <<>>, Num(1), Absent, Absent),
                RunSnapshot(<<>>, <<>>, <<>>, Num(3), Num(2), Absent)>>,
              <<>>)}
LiveFiles ==
    {FileMissing, FileInvalid, FileEmpty, FileNull, FileUnreadable, FileNonObject}
    \cup {FileValid(d) : d \in LiveDocuments}

InitLive ==
    /\ file \in LiveFiles
    /\ pc = "start"
    /\ data = NoData
    /\ Blank
    /\ NoCalc

\* the scraper (or anyone) replaces, removes or creates scraper_data.json
WriteFile ==
    /\ file' \in LiveFiles \ {file}
    /\ UNCHANGED <<pc, data, widgets, views, calc>>

NextLive == Next \/ WriteFile

\* the steps the script takes by itself: it runs from top to bottom, and the
\* waiting branch ends in st.rerun() after its sleep; a rerun of a drawn
\* dashboard (Refresh) waits for the user or the auto-refresh checkbox
ScriptStep ==
    CheckExists \/ LoadData \/ WaitRerun \/ Sidebar \/ Tab1 \/ Tab2 \/ Tab3 \/ Tab4 \/ Tab5

SpecLive == InitLive /\ [][NextLive]_vars /\ WF_vars(ScriptStep)

(* --------- calculate_profit_margin applied to bounded arguments -------- *)
InitCalc ==
    /\ file = FileMissing
    /\ pc = "call"
    /\ data = NoData
    /\ Blank
    /\ buy_price \in Prices
    /\ sell_price \in Prices
    /\ margin = Null

Calculate ==
    /\ pc = "call"
    /\ margin' = calculate_profit_margin(buy_price, sell_price)
    /\ pc' = "returned"
    /\ UNCHANGED <<file, data, widgets, views, buy_price, sell_price>>

NextCalc == Calculate

SpecCalc == InitCalc /\ [][NextCalc]_vars

(* ============================== claims ================================= *)
Drawn(tabs) == pc \in tabs
AfterTab1 == Drawn({"tab2", "tab3", "tab4", "tab5", "end"})
AfterTab2 == Drawn({"tab3", "tab4", "tab5", "end"})
AfterTab4 == Drawn({"tab5", "end"})
AfterTab5 == Drawn({"end"})

History == data.v.run_history

\* C1: calculate_profit_margin returns null exactly when the eBay average is
\* absent or the buy price is absent or <= 0, and otherwise returns
\* (ebayAvg - buyPrice) / buyPrice * 100; an eBay average of 0 with a positive
\* buy price gives -100.
C1_MarginNullOnlyWithoutPrice ==
    pc = "returned" =>
        margin = IF IsNone(sell_price) \/ IsNone(buy_price) \/ buy_price.v <= 0
                 THEN Null
                 ELSE Obj(Frac((sell_price.v - buy_price.v) * 100, buy_price.v))

\* no item with a null margin stands before an item with a numeric margin
NullMarginsLast(items) ==
    \A i \in 1..Len(items), j \in 1..Len(items) :
        i < j => ~(IsNone(items[i].margin_percent) /\ IsNum(items[j].margin_percent))

\* C2: in the ranked opportunity list and in the ranked listing list, no item
\* whose margin_percent is null appears before an item whose margin_percent is
\* a number, whatever the input order and the numeric margins (0 and negative
\* ones included).
C2_NullMarginsRankLast ==
    /\ AfterTab1 => NullMarginsLast(opportunities_sorted)
    /\ AfterTab2 => NullMarginsLast(sorted_products)

\* C3: with only the minimum-margin filter active, the listings kept are
\* exactly those whose margin_percent is a number >= min_margin, in ranked
\* order: a null margin is excluded, a numeric margin that meets the bound
\* (0 included) is kept.
C3_MinMarginKeepsNumericAtLeastBound ==
    LET products == ProductsWithComparison(History, selected_run_idx)
        kept(p) == IsNum(p.margin_percent) /\ p.margin_percent.v >= min_margin
    IN  (AfterTab2 /\ products # <<>> /\ ~show_only_profitable /\ source_filter = "All")
            => sorted_products = SelectSeq(SortProducts(products), kept)

NamesOf(opps) == {opps[i].buy_product_name : i \in 1..Len(opps)}
LastMargin(opps, n) ==
    LET last == CHOOSE i \in 1..Len(opps) :
                    /\ opps[i].buy_product_name = n
                    /\ \A j \in (i + 1)..Len(opps) : opps[j].buy_product_name # n
    IN  opps[last].margin_percent
DiffCell(opps, n) ==
    IF n \in NamesOf(opps) /\ IsNum(LastMargin(opps, n))
    THEN Format1f(LastMargin(opps, n).v)
    ELSE NA

\* C4: the product-level diff of two runs has exactly one row per product name
\* of either run; a row shows "N/A" for a run exactly when the name is absent
\* from that run, and otherwise the margin_percent of the last opportunity of
\* that name in the run, also when that margin is 0.
C4_DiffRowPerNameLastWriteWins ==
    comparison.state = "compared" =>
        LET oppsA == History[run1_idx].arbitrage_opportunities
            oppsB == History[run2_idx].arbitrage_opportunities
        IN  comparison.rows =
                {[Product |-> n, margin1 |-> DiffCell(oppsA, n), margin2 |-> DiffCell(oppsB, n)] :
                    n \in NamesOf(oppsA) \cup NamesOf(oppsB)}

SeriesOf == <<series.swappa_counts, series.ebay_counts, series.opp_counts, series.avg_margins>>

\* C5 as stated: for a run history of any length, 0 and 1 included, every
\* metric's series has exactly one element per run.
C5_SeriesLengthAnyHistory ==
    AfterTab5 => \A m \in 1..4 : Len(SeriesOf[m]) = Len(History)

\* C5, amended: for a run history of at least 2 runs every metric's series has
\* exactly one element per run, in the order of run_history; for a history of
\* 0 or 1 runs the analytics step builds no series.
C5_SeriesPerRunFromTwoRuns ==
    AfterTab5 =>
        IF Len(History) >= 2
        THEN /\ series.built
             /\ \A m \in 1..4 : Len(SeriesOf[m]) = Len(History)
             /\ \A i \in 1..Len(History) :
                   /\ series.swappa_counts[i] = Counter(History[i].total_swappa)
                   /\ series.ebay_counts[i] = Counter(History[i].total_ebay_sold)
                   /\ series.opp_counts[i] = Len(History[i].arbitrage_opportunities)
                   /\ series.avg_margins[i] = AvgMargin(History[i])
        ELSE series = NoSeries

C5_Witness ==
    /\ AfterTab5
    /\ Len(History) = 2
    /\ series.built
    /\ series.swappa_counts = <<3, 0>>

\* the mean of the non-null margins of all the listings of a run, 0 without any
MeanMarginAllListings(run) ==
    LET all == run.swappa_products \o run.newegg_products
        numeric(p) == IsNum(p.margin_percent)
        valued == SelectSeq(all, numeric)
        margins == [i \in 1..Len(valued) |-> valued[i].margin_percent.v]
    IN  IF margins = <<>> THEN Frac(0, 1) ELSE Frac(SumSeq(margins), Len(margins))

\* C6: the avg_margin value of every run is the mean of the non-null
\* margin_percent values of all of that run's listings, of every source, and 0
\* when the run has no listing or only null margins.
C6_AvgMarginOverAllListings ==
    (AfterTab5 /\ series.built) =>
        \A i \in 1..Len(History) : series.avg_margins[i] = MeanMarginAllListings(History[i])

\* C7: with at least 2 runs, when the two selected runs are the same run the
\* comparison step shows no metric delta and no diff row and signals the
\* invalid comparison; deltas and diff are produced only for two different
\* runs.
C7_SameRunIsInvalidComparison ==
    (AfterTab4 /\ Len(History) >= 2) =>
        /\ run1_idx = run2_idx =>
              /\ comparison.state = "select_different"
              /\ comparison.deltas = {}
              /\ comparison.rows = {}
        /\ run1_idx # run2_idx =>
              /\ comparison.state = "compared"
              /\ comparison.deltas # {}

C7_Witness ==
    /\ AfterTab4
    /\ run1_idx = 2
    /\ run2_idx = 2
    /\ History[2].arbitrage_opportunities # <<>>
    /\ comparison.state = "select_different"

\* C8: a render pass over a document whose optional fields are present, absent
\* or null as the data model allows never ends in an unhandled fault.
C8_NoUnhandledFault == pc # "fault"

\* the value of a run's metric, a missing counter counting as 0
MetricValue(run, metric) ==
    CASE metric = "total_swappa" ->
            IF run.total_swappa.t = "num" THEN run.total_swappa.v ELSE 0
      [] metric = "total_ebay_sold" ->
            IF run.total_ebay_sold.t = "num" THEN run.total_ebay_sold.v ELSE 0
      [] OTHER -> Len(run.arbitrage_opportunities)

\* C9: for two different runs A and B, the delta of each metric (total_swappa,
\* total_ebay_sold, opportunity count) is B's value minus A's value, a missing
\* counter counting as 0, and it is the negation of the delta of comparing
\* (B, A).
C9_DeltaIsBMinusA ==
    comparison.state = "compared" =>
        LET A == History[run1_idx]
            B == History[run2_idx]
        IN  /\ {r.metric : r \in comparison.deltas} =
                   {"total_swappa", "total_ebay_sold", "opportunities"}
            /\ \A r \in comparison.deltas :
                   /\ r.delta = MetricValue(B, r.metric) - MetricValue(A, r.metric)
                   /\ \E q \in CompareRuns(History, run2_idx, run1_idx).deltas :
                         q.metric = r.metric /\ r.delta = -q.delta

C9_Witness ==
    /\ comparison.state = "compared"
    /\ History[run1_idx].total_swappa = Num(3)
    /\ History[run2_idx].total_swappa = Absent
    /\ \E r \in comparison.deltas : r.metric = "total_swappa" /\ r.delta = -3

\* C10: no step of a render pass, whatever run, filter settings and compared
\* runs are selected, changes the loaded data or the file: the document, its
\* run_history and every listing and opportunity sequence stay as loaded, and
\* sorting and filtering produce new sequences.
C10_RenderLeavesDataUnchanged ==
    [][file' = file /\ (pc \notin {"start", "open"} => data' = data)]_vars

C10_Witness ==
    /\ AfterTab2
    /\ opportunities_sorted # <<>>
    /\ opportunities_sorted # data.v.arbitrage_opportunities
    /\ data = load_data(TRUE, file)

\* the file states of the claim: missing, unparseable, or decoding to an
\* empty value
YieldsNoData(f) == f.kind \in {"missing", "invalid", "empty", "null"}

\* no tab has been drawn in this pass
NoTabDrawn ==
    /\ opportunities_sorted = <<>>
    /\ sorted_products = <<>>
    /\ comparison = NoComparison("not_drawn")
    /\ series = NoSeries

\* this pass has drawn the dashboard's first tab, at least
DashboardDrawn == Drawn({"tab2", "tab3", "tab4", "tab5", "end", "fault"})

\* the pass is inside load_data
Loading == pc \in {"start", "open"}

\* load_data returns, or is left by an exception, while the file yields no data
LoadEndsWithoutData == Loading /\ ~Loading' /\ YieldsNoData(file)

\* a pass that finds no data stops in the waiting state with no tab drawn, and
\* a waiting pass is followed by another pass without any user action
WaitingLoop ==
    /\ [][LoadEndsWithoutData => (pc' = "waiting" /\ UNCHANGED views)]_vars
    /\ [](pc = "waiting" => (NoTabDrawn /\ ENABLED WaitRerun))
    /\ (pc = "waiting") ~> (pc = "start")

\* C11: while load_data yields no data (file missing, unparseable, or
\* decoding to an empty value) every pass stops in the waiting state without
\* drawing a tab and another pass follows by itself; consequently, if the
\* file eventually holds valid non-empty JSON and stays that way, a later
\* pass eventually draws the dashboard.
C11_ValidNonEmptyJsonIsDrawn ==
    /\ WaitingLoop
    /\ <>[](file.kind \in {"valid", "nonobject"}) => <>DashboardDrawn

\* load_data was left by an exception while the file yields no data: the file
\* was there at os.path.exists and gone at open(); no pass follows
C11_Witness ==
    /\ pc = "load_error"
    /\ YieldsNoData(file)
    /\ ~ENABLED ScriptStep

====
